---- MODULE Spec2Model ----
(***************************************************************************)
(* LlavaCaptioner._annotate (src/app.py) as a state machine.               *)
(*                                                                         *)
(* One behaviour is one request.  The request's input (the MMIF document   *)
(* and the runtime parameters) is fixed in the initial state; the actions  *)
(* are the lookups of lines 51-58, the choice of branch at lines 60/84,    *)
(* one action per loop iteration (the flush of a full batch included) and  *)
(* the final flush of each branch.                                         *)
(*                                                                         *)
(* A string is a sequence of tokens.  The tokens that matter to the code   *)
(* ("-", "[CONTEXT]", the "[INST] <image>\n" and "\n[/INST]" wrappers, a   *)
(* blank) are single tokens; a character of aligned text is the token "x". *)
(***************************************************************************)
EXTENDS Integers, Sequences, FiniteSets, TLC

VARIABLES
    pc,            \* position in _annotate
    raised,        \* the exception that left _annotate, or "none"
    video_docs,    \* input: number of VideoDocuments in the MMIF
    input_views,   \* input: metadata["app"] of each view on the video document
    tf_input,      \* input: the TimeFrame annotations of the upstream view
    frame_count,   \* input: vdh.get_frame_count(video_doc)
    parameters,    \* input: the runtime parameters (a dict)
    views_added,   \* number of views mmif.new_view() has added
    new_view,      \* the output view: text documents, alignments, time points
    timeframes,    \* local: list(timeframes)
    frame_numbers, \* local: list(range(0, total_frames, frame_interval))
    extracted,     \* the list object vdh.extract_frames_as_images returned
    aliased,       \* TRUE while the name `images` is bound to that same list object
    idx,           \* number of loop iterations begun so far
    prompts,       \* local accumulator
    images,        \* local accumulator
    annotations,   \* local accumulator
    sliced,        \* lengths of the last sliced text and of the context made of it
    calls          \* history: every process_batch call, with its arguments and outcome

vars == <<pc, raised, video_docs, input_views, tf_input, frame_count, parameters,
          views_added, new_view, timeframes, frame_numbers, extracted, aliased,
          idx, prompts, images, annotations, sliced, calls>>

inputs == <<video_docs, input_views, tf_input, frame_count, parameters>>

(***************************************************************************)
(* Bounds of the explored inputs.                                          *)
(***************************************************************************)
MaxSpans == 3
MaxFrames == 4
MaxInterval == 2
MaxBatch == 2
OverLen == 1

(***************************************************************************)
(* Program constants.                                                      *)
(***************************************************************************)
max_characters == 200
DefaultFrameInterval == 30
DefaultBatchSize == 8

SkipSentinel == <<"-">>
Placeholder == "[CONTEXT]"
InstOpen == "[INST] <image>\n"
InstClose == "\n[/INST]"
TransnetApp == "http://apps.clams.ai/transnet-wrapper/unresolvable"
OtherApp == "http://apps.clams.ai/other"
MetaDefaultPrompt == <<"Describe what is shown in this video frame.">>

\* Python values that may be None
None == [isNone |-> TRUE, val |-> <<>>]
Some(v) == [isNone |-> FALSE, val |-> v]

Min(a, b) == IF a <= b THEN a ELSE b

\* dict.get(key, default)
Get(d, key, default) == IF key \in DOMAIN d THEN d[key] ELSE default

\* a text of n characters
Chars(n) == [i \in 1..n |-> "x"]

\* number of occurrences of a token in a string
CountTok(s, tok) == Cardinality({i \in 1..Len(s) : s[i] = tok})

\* str.replace(old, new): every occurrence, left to right, no rescan
RECURSIVE replace(_, _, _)
replace(s, old, new) ==
    IF s = <<>> THEN <<>>
    ELSE (IF Head(s) = old THEN new ELSE <<Head(s)>>) \o replace(Tail(s), old, new)

\* str.strip(): leading and trailing blanks removed
RECURSIVE lstrip(_)
lstrip(s) == IF s # <<>> /\ Head(s) = " " THEN lstrip(Tail(s)) ELSE s

RECURSIVE rstrip(_)
rstrip(s) ==
    IF s # <<>> /\ s[Len(s)] = " " THEN rstrip(SubSeq(s, 1, Len(s) - 1)) ELSE s

strip(s) == rstrip(lstrip(s))

\* list(range(start, stop, step)) for step >= 1
RECURSIVE range(_, _, _)
range(start, stop, step) ==
    IF start >= stop THEN <<>> ELSE <<start>> \o range(start + step, stop, step)

frame_range_inclusive(total_frames, frame_interval) ==
    range(0, total_frames + 1, frame_interval)

frame_range(total_frames, frame_interval) == range(0, total_frames, frame_interval)

\* get_context: the sliced text cut to max_characters
get_context_uncut(sliced_text) == sliced_text

get_context(sliced_text) == SubSeq(sliced_text, 1, Min(Len(sliced_text), max_characters))

\* get_prompt
get_prompt_default_only(label, prompt_map, default_prompt) ==
    IF default_prompt = SkipSentinel THEN None
    ELSE Some(<<InstOpen>> \o default_prompt \o <<InstClose>>)

get_prompt(label, prompt_map, default_prompt) ==
    LET prompt == Get(prompt_map, label, default_prompt)
    IN  IF prompt = SkipSentinel THEN None
        ELSE Some(<<InstOpen>> \o prompt \o <<InstClose>>)

\* vdh.extract_mid_frame(mmif, timeframe); both branches of lines 96-101 call it
extract_image(timeframe, representatives) ==
    IF representatives THEN [kind |-> "mid", of |-> timeframe.id]
    ELSE [kind |-> "mid", of |-> timeframe.id]

\* one image per frame number, as vdh.extract_frames_as_images returns them
extract_frames_as_images(numbers) ==
    [i \in 1..Len(numbers) |-> [kind |-> "frame", of |-> numbers[i]]]

(***************************************************************************)
(* The model call of process_batch (lines 66-77) and the emission loop     *)
(* (lines 78-82).                                                          *)
(***************************************************************************)
EmptyView == [documents |-> <<>>, alignments |-> <<>>, timepoints |-> <<>>]

\* the decoded string of the i-th prompt of the k-th call
Caption(k, i) == "caption-" \o ToString(k) \o "." \o ToString(i)

\* processor + model.generate + batch_decode, when they succeed: one decoded
\* string per submitted prompt, padded with blanks
generate(k, ps) == [i \in 1..Len(ps) |-> <<" ", Caption(k, i), " ">>]

new_textdocument(view, text) ==
    [id |-> <<"td", Len(view.documents) + 1>>, text |-> text]

new_alignment(view, source, target) ==
    [id |-> <<"al", Len(view.alignments) + 1>>, source |-> source, target |-> target]

new_timepoint(view, frame_number) ==
    [id |-> <<"tp", Len(view.timepoints) + 1>>, timePoint |-> frame_number]

Reverse(s) == [i \in 1..Len(s) |-> s[Len(s) + 1 - i]]

\* for generated_text, annotation in zip(generated_texts, annotations): ...
RECURSIVE zip_emit(_, _, _)
zip_emit(view, generated_texts, anns) ==
    IF generated_texts = <<>> \/ anns = <<>> THEN view
    ELSE LET text_document == new_textdocument(view, strip(Head(generated_texts)))
             alignment == new_alignment(view, Head(anns).source, text_document.id)
         IN  zip_emit([view EXCEPT !.documents = Append(@, text_document),
                                   !.alignments = Append(@, alignment)],
                      Tail(generated_texts), Tail(anns))

RECURSIVE zip_emit_stale_target(_, _, _)
zip_emit_stale_target(view, generated_texts, anns) ==
    IF generated_texts = <<>> \/ anns = <<>> THEN view
    ELSE LET text_document == new_textdocument(view, strip(Head(generated_texts)))
             alignment == new_alignment(view, Head(anns).source,
                                        <<"td", Len(view.documents)>>)
         IN  zip_emit_stale_target(
                      [view EXCEPT !.documents = Append(@, text_document),
                                   !.alignments = Append(@, alignment)],
                      Tail(generated_texts), Tail(anns))

emit_reversed(view, generated_texts, anns) ==
    zip_emit(view, generated_texts, Reverse(anns))

emit(view, generated_texts, anns) == zip_emit(view, generated_texts, anns)

\* where control goes after the model call: process_batch has no try/except,
\* so an exception of the call leaves _annotate
after_invoke_swallowed(outcome, next_pc) == [pc |-> next_pc, raised |-> "none"]

after_invoke(outcome, next_pc) ==
    IF outcome = "error" THEN [pc |-> "error", raised |-> "ModelError"]
    ELSE [pc |-> next_pc, raised |-> "none"]

Outcomes == {"ok", "error"}

Sources(anns) == [i \in 1..Len(anns) |-> anns[i].source]

\* process_batch(ps, ims, anns) called with the output view `view`
process_batch(outcome, view, ps, ims, anns, next_pc) ==
    LET after == after_invoke(outcome, next_pc)
    IN  /\ calls' = Append(calls, [prompts |-> ps, images |-> ims,
                                   sources |-> Sources(anns), outcome |-> outcome])
        /\ new_view' = IF outcome = "ok"
                       THEN emit(view, generate(Len(calls) + 1, ps), anns)
                       ELSE view
        /\ pc' = after.pc
        /\ raised' = after.raised

(***************************************************************************)
(* The parameters as _annotate reads them (lines 46-49).                   *)
(***************************************************************************)
label_map == parameters["promptMap"]
default_prompt == parameters["defaultPrompt"]
frame_interval == Get(parameters, "frameInterval", DefaultFrameInterval)
batch_size == Get(parameters, "batchSize", DefaultBatchSize)

(***************************************************************************)
(* The explored requests.                                                  *)
(***************************************************************************)
Labels == {"A", "B", "C"}
TemplateA == <<"Describe A given", Placeholder>>
NoPrompts == [l \in {} |-> <<>>]
MappedPrompts == [l \in {"A", "B"} |-> IF l = "A" THEN TemplateA ELSE SkipSentinel]
PromptMaps == {NoPrompts, MappedPrompts}
ContextDefaultPrompt == <<"Describe the scene given", Placeholder>>
DefaultPrompts == {MetaDefaultPrompt, ContextDefaultPrompt, SkipSentinel}
TextLens == {0, max_characters, max_characters + OverLen}
ViewLists == {<<>>, <<OtherApp>>, <<TransnetApp>>, <<OtherApp, TransnetApp>>}

SeqsUpTo(S, n) == UNION {[1..m -> S] : m \in 0..n}

TimeFramesOf(labels) ==
    [i \in 1..Len(labels) |-> [id |-> <<"tf", i>>, label |-> labels[i]]]

\* 0 stands for "parameter not given"
Params(pm, dp, fi, bs) ==
    [k \in {"promptMap", "defaultPrompt"}
           \cup (IF fi = 0 THEN {} ELSE {"frameInterval"})
           \cup (IF bs = 0 THEN {} ELSE {"batchSize"}) |->
        CASE k = "promptMap" -> pm
          [] k = "defaultPrompt" -> dp
          [] k = "frameInterval" -> fi
          [] k = "batchSize" -> bs]

Request(vd, vs, tfs, fc, ps) ==
    [video_docs |-> vd, input_views |-> vs, tf_input |-> tfs, frame_count |-> fc,
     parameters |-> ps]

HasUpstream(vs) == \E i \in 1..Len(vs) : vs[i] = TransnetApp

\* requests that fail a lookup; what the lookups do not read is held fixed
LookupRequests ==
    {Request(vd, vs, <<>>, 0, Params(NoPrompts, MetaDefaultPrompt, 0, 0)) :
        vd \in 0..1, vs \in ViewLists}

\* requests with time-frames; the frame interval is not read in this branch
TimeFrameRequests ==
    {Request(1, <<OtherApp, TransnetApp>>, TimeFramesOf(ls), MaxFrames,
             Params(pm, dp, 0, bs)) :
        ls \in SeqsUpTo(Labels, MaxSpans) \ {<<>>}, pm \in PromptMaps,
        dp \in DefaultPrompts, bs \in 0..MaxBatch}

\* requests without time-frames; the prompt map is not read in this branch
IntervalRequests ==
    {Request(1, <<TransnetApp>>, <<>>, fc, Params(NoPrompts, dp, fi, bs)) :
        fc \in 0..MaxFrames, dp \in DefaultPrompts, fi \in 0..MaxInterval,
        bs \in 0..MaxBatch}

\* the two end-to-end scenarios of the specification
ScenarioRequests ==
    {Request(1, <<TransnetApp>>, <<>>, 100, Params(NoPrompts, MetaDefaultPrompt, 25, 4)),
     Request(1, <<TransnetApp>>, TimeFramesOf(<<"A", "B", "A", "C", "B">>), 100,
             Params(MappedPrompts, MetaDefaultPrompt, 0, 4))}

Requests ==
    LookupRequests \cup TimeFrameRequests \cup IntervalRequests \cup ScenarioRequests

Init ==
    /\ \E r \in Requests :
          /\ video_docs = r.video_docs
          /\ input_views = r.input_views
          /\ tf_input = r.tf_input
          /\ frame_count = r.frame_count
          /\ parameters = r.parameters
    /\ pc = "start"
    /\ raised = "none"
    /\ views_added = 0
    /\ new_view = EmptyView
    /\ timeframes = <<>>
    /\ frame_numbers = <<>>
    /\ extracted = <<>>
    /\ aliased = FALSE
    /\ idx = 0
    /\ prompts = <<>>
    /\ images = <<>>
    /\ annotations = <<>>
    /\ sliced = [text |-> 0, context |-> 0]
    /\ calls = <<>>

(***************************************************************************)
(* Lines 51-58: the lookups, then the output view.                         *)
(***************************************************************************)
LookupViewFirst ==
    /\ pc = "start"
    /\ views_added' = views_added + 1
    /\ IF video_docs = 0 \/ ~HasUpstream(input_views)
       THEN pc' = "error" /\ raised' = "IndexError"
       ELSE pc' = "resolve" /\ raised' = "none"
    /\ UNCHANGED <<inputs, new_view, timeframes, frame_numbers, extracted, aliased,
                   idx, prompts, images, annotations, sliced, calls>>

Lookup ==
    /\ pc = "start"
    /\ IF video_docs = 0 \/ ~HasUpstream(input_views)
       THEN pc' = "error" /\ raised' = "IndexError" /\ views_added' = views_added
       ELSE pc' = "resolve" /\ raised' = "none" /\ views_added' = views_added + 1
    /\ UNCHANGED <<inputs, new_view, timeframes, frame_numbers, extracted, aliased,
                   idx, prompts, images, annotations, sliced, calls>>

(***************************************************************************)
(* Lines 60-63, 84 and 113-115: the spans to caption.                      *)
(***************************************************************************)
Resolve ==
    /\ pc = "resolve"
    /\ timeframes' = tf_input
    /\ prompts' = <<>>
    /\ annotations' = <<>>
    /\ idx' = 0
    /\ IF tf_input # <<>>
       THEN /\ pc' = "tf_loop"
            /\ images' = <<>>
            /\ UNCHANGED <<frame_numbers, extracted, aliased>>
       ELSE /\ pc' = "tp_loop"
            /\ frame_numbers' = frame_range(frame_count, frame_interval)
            /\ extracted' = extract_frames_as_images(frame_numbers')
            /\ images' = extracted'
            /\ aliased' = TRUE
    /\ UNCHANGED <<inputs, raised, views_added, new_view, sliced, calls>>

(***************************************************************************)
(* Lines 85-108: one iteration of the time-frame loop.                     *)
(***************************************************************************)
batch_full(ps) == Len(ps) = batch_size

TimeFrameIteration ==
    /\ pc = "tf_loop"
    /\ idx < Len(timeframes)
    /\ idx' = idx + 1
    /\ \E n \in TextLens, representatives \in BOOLEAN, outcome \in Outcomes :
        LET timeframe == timeframes[idx + 1]
            context == get_context(Chars(n))
            label == timeframe.label
            resolved == get_prompt(label, label_map, default_prompt)
        IN  /\ sliced' = [text |-> n, context |-> Len(context)]
            /\ IF resolved.isNone
               THEN \* line 90: None has no replace()
                    /\ pc' = "error"
                    /\ raised' = "AttributeError"
                    /\ UNCHANGED <<prompts, images, annotations, new_view, calls>>
               ELSE LET prompt == replace(resolved.val, Placeholder, context)
                        image == extract_image(timeframe, representatives)
                        prompts1 == Append(prompts, prompt)
                        images1 == Append(images, image)
                        annotations1 == Append(annotations, [source |-> timeframe.id])
                    IN  IF prompt = <<>>
                        THEN \* lines 93-94
                             UNCHANGED <<pc, raised, prompts, images, annotations,
                                         new_view, calls>>
                        ELSE IF batch_full(prompts1)
                        THEN /\ process_batch(outcome, new_view, prompts1, images1,
                                              annotations1, "tf_loop")
                             /\ IF pc' = "error"
                                THEN /\ prompts' = prompts1
                                     /\ images' = images1
                                     /\ annotations' = annotations1
                                ELSE /\ prompts' = <<>>
                                     /\ images' = <<>>
                                     /\ annotations' = <<>>
                        ELSE /\ prompts' = prompts1
                             /\ images' = images1
                             /\ annotations' = annotations1
                             /\ UNCHANGED <<pc, raised, new_view, calls>>
    /\ UNCHANGED <<inputs, views_added, timeframes, frame_numbers, extracted, aliased>>

(***************************************************************************)
(* Lines 110-111 and 134: the last, partial batch of the time-frame loop.  *)
(***************************************************************************)
TimeFrameFinish ==
    /\ pc = "tf_loop"
    /\ idx = Len(timeframes)
    /\ IF prompts # <<>>
       THEN \E outcome \in Outcomes :
               process_batch(outcome, new_view, prompts, images, annotations, "done")
       ELSE pc' = "done" /\ UNCHANGED <<raised, new_view, calls>>
    /\ UNCHANGED <<inputs, views_added, timeframes, frame_numbers, extracted, aliased,
                   idx, prompts, images, annotations, sliced>>

(***************************************************************************)
(* Lines 117-129: one iteration of the interval loop.  zip() walks         *)
(* frame_numbers and the list object extract_frames_as_images returned;    *)
(* images.append() grows that same object until line 129 rebinds `images`. *)
(***************************************************************************)
TimePointIteration ==
    /\ pc = "tp_loop"
    /\ idx < Min(Len(frame_numbers), Len(extracted))
    /\ idx' = idx + 1
    /\ \E outcome \in Outcomes :
        LET frame_number == frame_numbers[idx + 1]
            image == extracted[idx + 1]
            prompt == default_prompt
            prompts1 == Append(prompts, prompt)
            images1 == Append(images, image)
            timepoint == new_timepoint(new_view, frame_number)
            view1 == [new_view EXCEPT !.timepoints = Append(@, timepoint)]
            annotations1 == Append(annotations, [source |-> timepoint.id])
        IN  /\ extracted' = IF aliased THEN images1 ELSE extracted
            /\ IF batch_full(prompts1)
               THEN /\ process_batch(outcome, view1, prompts1, images1, annotations1,
                                     "tp_loop")
                    /\ IF pc' = "error"
                       THEN /\ prompts' = prompts1
                            /\ images' = images1
                            /\ annotations' = annotations1
                            /\ aliased' = aliased
                       ELSE /\ prompts' = <<>>
                            /\ images' = <<>>
                            /\ annotations' = <<>>
                            /\ aliased' = FALSE
               ELSE /\ prompts' = prompts1
                    /\ images' = images1
                    /\ annotations' = annotations1
                    /\ new_view' = view1
                    /\ UNCHANGED <<pc, raised, calls, aliased>>
    /\ UNCHANGED <<inputs, views_added, timeframes, frame_numbers, sliced>>

(***************************************************************************)
(* Lines 131-132 and 134: the last, partial batch of the interval loop.    *)
(***************************************************************************)
TimePointFinish ==
    /\ pc = "tp_loop"
    /\ idx = Min(Len(frame_numbers), Len(extracted))
    /\ IF prompts # <<>>
       THEN \E outcome \in Outcomes :
               process_batch(outcome, new_view, prompts, images, annotations, "done")
       ELSE pc' = "done" /\ UNCHANGED <<raised, new_view, calls>>
    /\ UNCHANGED <<inputs, views_added, timeframes, frame_numbers, extracted, aliased,
                   idx, prompts, images, annotations, sliced>>

Next ==
    \/ Lookup
    \/ Resolve
    \/ TimeFrameIteration
    \/ TimeFrameFinish
    \/ TimePointIteration
    \/ TimePointFinish

Spec == Init /\ [][Next]_vars

(***************************************************************************)
(* Vocabulary of the properties.                                           *)
(***************************************************************************)
LookupOk == video_docs > 0 /\ HasUpstream(input_views)
TimeFrameMode == tf_input # <<>>
Started == pc \notin {"start", "resolve"}
ModelFailed == \E k \in 1..Len(calls) : calls[k].outcome = "error"

IsPrefix(s, t) == Len(s) <= Len(t) /\ \A i \in 1..Len(s) : s[i] = t[i]

Ceil(n, b) == (n + b - 1) \div b

\* the template the parameters give a label
TemplateOf(label) ==
    IF label \in DOMAIN parameters["promptMap"]
    THEN parameters["promptMap"][label]
    ELSE parameters["defaultPrompt"]

KeepsTimeFrame(tf) == TemplateOf(tf.label) # SkipSentinel

\* the frame indices 0, k, 2k, ... below the frame count, ascending
RECURSIVE Ascending(_)
Ascending(S) ==
    IF S = {} THEN <<>>
    ELSE LET m == CHOOSE x \in S : \A y \in S : x <= y
         IN  <<m>> \o Ascending(S \ {m})

SampledIndices ==
    Ascending({n \in 0..(frame_count - 1) : n % frame_interval = 0})

\* identifiers of the spans that are not skipped, in resolver order: the
\* time-frames whose template is not the sentinel, or else every synthesized
\* time-point (lines 117-125 have no skip)
NonSkipped ==
    IF TimeFrameMode
    THEN Sources([i \in 1..Len(SelectSeq(tf_input, KeepsTimeFrame)) |->
                    [source |-> SelectSeq(tf_input, KeepsTimeFrame)[i].id]])
    ELSE [i \in 1..Len(SampledIndices) |-> <<"tp", i>>]

AlignmentSources ==
    [i \in 1..Len(new_view.alignments) |-> new_view.alignments[i].source]

TimePointValues ==
    [i \in 1..Len(new_view.timepoints) |-> new_view.timepoints[i].timePoint]

\* the (source, prompt) pairs appended to the accumulators so far
Submitted ==
    UNION {{[source |-> calls[k].sources[i], prompt |-> calls[k].prompts[i]] :
               i \in 1..Len(calls[k].sources)} : k \in 1..Len(calls)}
    \cup {[source |-> annotations[i].source, prompt |-> prompts[i]] :
            i \in 1..Len(annotations)}

SubmittedSources == {it.source : it \in Submitted}

\* the text documents holding the decoded string of the prompt submitted for s
DocumentsFor(s) ==
    {new_view.documents[d].id : d \in
        {d \in 1..Len(new_view.documents) :
            \E k \in 1..Len(calls) : \E i \in 1..Len(calls[k].sources) :
                /\ calls[k].sources[i] = s
                /\ new_view.documents[d].text = <<Caption(k, i)>>}}

AlignmentsOf(s) ==
    {j \in 1..Len(new_view.alignments) : new_view.alignments[j].source = s}

OneAlignedDocument(s) ==
    /\ Cardinality(AlignmentsOf(s)) = 1
    /\ Cardinality(DocumentsFor(s)) = 1
    /\ \A j \in AlignmentsOf(s) : new_view.alignments[j].target \in DocumentsFor(s)

(***************************************************************************)
(* C1: when a request completes with N spans not skipped, the output view  *)
(* holds exactly N text documents and N alignments, and every non-skipped  *)
(* span is the source of exactly one alignment, whose target is the text   *)
(* document made of the string decoded for that span's prompt.             *)
(***************************************************************************)
C1_OnePairPerSpan ==
    pc = "done" =>
        /\ Len(new_view.documents) = Len(NonSkipped)
        /\ Len(new_view.alignments) = Len(NonSkipped)
        /\ \A i \in 1..Len(NonSkipped) : OneAlignedDocument(NonSkipped[i])

C1_Witness ==
    /\ pc = "done"
    /\ TimeFrameMode
    /\ Len(NonSkipped) >= 3
    /\ Len(calls) >= 2
    /\ Len(new_view.documents) = Len(NonSkipped)

(***************************************************************************)
(* C2 (as claimed), for time-frames: a time-frame whose resolved template  *)
(* is the sentinel "-" is left out without an error: it is never appended  *)
(* to a batch, _annotate raises nothing over it, and the loop goes on to   *)
(* the time-frames after it.                                               *)
(***************************************************************************)
SentinelTimeFrames ==
    {i \in 1..Len(tf_input) : ~KeepsTimeFrame(tf_input[i])}

C2_SkipIsSilent ==
    (Started /\ TimeFrameMode) =>
        /\ raised # "AttributeError"
        /\ SubmittedSources \cap {tf_input[i].id : i \in SentinelTimeFrames} = {}
        /\ \A i \in SentinelTimeFrames :
              (idx = i /\ ~ModelFailed) => pc \in {"tf_loop", "done"}

\* C2 (as claimed), for time-points: with "-" as the default prompt no
\* synthesized time-point is appended to a batch
C2_SkipIsSilentForTimePoints ==
    (~TimeFrameMode /\ parameters["defaultPrompt"] = SkipSentinel) =>
        SubmittedSources = {}

(***************************************************************************)
(* C3 (as claimed): a request with N non-skipped spans and batch size B    *)
(* whose lookups and model calls succeed ends with exactly ceil(N/B) model *)
(* calls, all of B prompts except a last one of 1..B, and nothing left in  *)
(* the accumulators.                                                       *)
(***************************************************************************)
C3_FlushCount ==
    (pc \in {"done", "error"} /\ LookupOk /\ ~ModelFailed) =>
        /\ Len(calls) = Ceil(Len(NonSkipped), batch_size)
        /\ \A k \in 1..Len(calls) :
              /\ Len(calls[k].prompts) >= 1
              /\ Len(calls[k].prompts) <= batch_size
              /\ k < Len(calls) => Len(calls[k].prompts) = batch_size
        /\ SubmittedSources \subseteq
              UNION {{calls[k].sources[i] : i \in 1..Len(calls[k].sources)} :
                        k \in 1..Len(calls)}

\* the same count, for the requests that reach the end of _annotate
C3_CompletedRequests == pc = "done" => C3_FlushCount

(***************************************************************************)
(* C4: the i-th alignment of the output view has the i-th non-skipped      *)
(* span, in resolver order, as its source.                                 *)
(***************************************************************************)
C4_EncounterOrder == IsPrefix(AlignmentSources, NonSkipped)

C4_Witness ==
    /\ Len(new_view.alignments) >= 3
    /\ Len(calls) >= 2
    /\ \E k \in 1..Len(calls) : Len(calls[k].sources) >= 2

Rendered(template, n) ==
    <<InstOpen>> \o replace(template, Placeholder, Chars(n)) \o <<InstClose>>

\* the time-frames whose iteration has run to its end
Visited ==
    {i \in 1..Len(timeframes) : i < idx \/ (i = idx /\ raised # "AttributeError")}

C6_PromptResolution ==
    (Started /\ TimeFrameMode) =>
        /\ \A it \in Submitted : \A i \in 1..Len(tf_input) :
              tf_input[i].id = it.source =>
                  it.prompt = Rendered(TemplateOf(tf_input[i].label),
                                       CountTok(it.prompt, "x"))
        /\ \A i \in Visited :
              (/\ tf_input[i].label \notin DOMAIN parameters["promptMap"]
               /\ parameters["defaultPrompt"] # SkipSentinel) =>
                  \E it \in Submitted :
                      /\ it.source = tf_input[i].id
                      /\ it.prompt = Rendered(parameters["defaultPrompt"],
                                              CountTok(it.prompt, "x"))

C6_Witness ==
    /\ TimeFrameMode
    /\ parameters["promptMap"] = MappedPrompts
    /\ parameters["defaultPrompt"] = MetaDefaultPrompt
    /\ \E it \in Submitted : \E i \in 1..Len(tf_input) :
          /\ tf_input[i].id = it.source
          /\ tf_input[i].label = "C"
          /\ it.prompt = <<InstOpen>> \o MetaDefaultPrompt \o <<InstClose>>
    /\ \E it \in Submitted : \E i \in 1..Len(tf_input) :
          /\ tf_input[i].id = it.source
          /\ tf_input[i].label = "A"

(***************************************************************************)
(* C7: the context put in place of [CONTEXT] in a time-frame's prompt has  *)
(* at most max_characters (200) characters, however long the aligned text. *)
(***************************************************************************)
C7_ContextBound ==
    /\ sliced.context <= max_characters
    /\ TimeFrameMode =>
          \A it \in Submitted : \A i \in 1..Len(tf_input) :
              tf_input[i].id = it.source =>
                  CountTok(it.prompt, "x") <=
                      max_characters * CountTok(TemplateOf(tf_input[i].label), Placeholder)

C7_Witness ==
    /\ sliced.text > max_characters
    /\ sliced.context = max_characters
    /\ \E it \in Submitted : CountTok(it.prompt, "x") = max_characters

(***************************************************************************)
(* C8: a failed model call ends the request: the exception leaves          *)
(* _annotate, the failed call is the last call, it emits nothing, and no   *)
(* call or annotation follows it.                                          *)
(***************************************************************************)
RECURSIVE OkPrompts(_)
OkPrompts(cs) ==
    IF cs = <<>> THEN 0
    ELSE (IF Head(cs).outcome = "ok" THEN Len(Head(cs).prompts) ELSE 0)
         + OkPrompts(Tail(cs))

FailureIsFinal ==
    /\ \A k \in 1..Len(calls) :
          calls[k].outcome = "error" =>
              k = Len(calls) /\ pc = "error" /\ raised = "ModelError"
    /\ Len(new_view.documents) = OkPrompts(calls)
    /\ Len(new_view.alignments) = OkPrompts(calls)

C8_FailureAborts ==
    /\ []FailureIsFinal
    /\ [][ModelFailed => (calls' = calls /\ new_view' = new_view /\ pc' = pc)]_vars

C8_Witness ==
    /\ ModelFailed
    /\ pc = "error"
    /\ Len(calls) >= 2
    /\ TimeFrameMode
    /\ idx < Len(timeframes)

(***************************************************************************)
(* C9: without a video document, or without a view of the upstream app,    *)
(* the request ends in a lookup error before any output: no view is added, *)
(* no model call is made, no annotation is created.                        *)
(***************************************************************************)
C9_LookupFailure ==
    (~LookupOk /\ pc # "start") =>
        /\ pc = "error"
        /\ raised = "IndexError"
        /\ views_added = 0
        /\ new_view = EmptyView
        /\ calls = <<>>

C9_Witness ==
    /\ pc = "error"
    /\ raised = "IndexError"
    /\ video_docs > 0
    /\ ~HasUpstream(input_views)
    /\ input_views # <<>>

(***************************************************************************)
(* C10 (as claimed): every model call gets as many images as prompts and   *)
(* sources, the i-th image being the frame extracted for the i-th span.    *)
(***************************************************************************)
FrameOf(s) ==
    IF TimeFrameMode THEN [kind |-> "mid", of |-> s]
    ELSE [kind |-> "frame", of |-> new_view.timepoints[s[2]].timePoint]

C10_ImagesMatchPrompts ==
    \A k \in 1..Len(calls) :
        /\ Len(calls[k].images) = Len(calls[k].prompts)
        /\ Len(calls[k].sources) = Len(calls[k].prompts)
        /\ \A i \in 1..Len(calls[k].prompts) :
              i <= Len(calls[k].images) =>
                  calls[k].images[i] = FrameOf(calls[k].sources[i])

====
